---------------------------- MODULE Spec2Model ----------------------------
(***************************************************************************)
(* State-machine model of transfer.py: the settlement spreadsheet is       *)
(* loaded and filtered, the operator selects rows through terminal         *)
(* prompts, and the selected rows are replayed as bank transfers through a *)
(* browser session.                                                        *)
(***************************************************************************)
EXTENDS Integers, Sequences, FiniteSets, TLC

VARIABLES
    pc,               \* position of the single thread of control
    caller,           \* who called select_settlements_by_row: "init" | "append"
    settlements_df,   \* SettlementData.settlements_df
    sub_df,           \* local sub_df / df_append of the selection in progress
    settlement_rows,  \* SettlementData.settlement_rows
    appends,          \* number of append_more_settlement_rows calls made
    out,              \* last line printed, or the exception that ended the run
    transfer_items,   \* argument of perform_transfers_via_selenium
    item,             \* position of the outer loop in transfer_items
    ord,              \* position of the inner loop in transfer_dict
    url,              \* browser.current_url
    i,                \* local counter i of wait_for_url_load
    polling,          \* wait_for_url_load is inside its loop body
    browser,          \* "none" | "open" | "closed"
    hist              \* history of the run (observations only, never read by the program)

vars == <<pc, caller, settlements_df, sub_df, settlement_rows, appends, out,
          transfer_items, item, ord, url, i, polling, browser, hist>>

-----------------------------------------------------------------------------
(* Bounds of the model *)

MaxLen == 3        \* longest row-number entry typed, in characters
MaxResp == 2       \* longest yes/no answer typed, in characters
MaxAppends == 1    \* calls of append_more_settlement_rows per run
PollCap == 11      \* the counter i of wait_for_url_load is capped here

-----------------------------------------------------------------------------
(* Generic helpers *)

Range(s) == {s[k] : k \in 1..Len(s)}

SeqsUpTo(S, n) == UNION {[1..k -> S] : k \in 0..n}

RECURSIVE DropWhileSpace(_)
DropWhileSpace(s) ==
    IF s = <<>> THEN <<>>
    ELSE IF Head(s) = " " THEN DropWhileSpace(Tail(s)) ELSE s

RECURSIVE DropTrailingSpace(_)
DropTrailingSpace(s) ==
    IF s = <<>> THEN <<>>
    ELSE IF s[Len(s)] = " " THEN DropTrailingSpace(SubSeq(s, 1, Len(s) - 1)) ELSE s

\* str.strip() on a string given as a sequence of characters
Strip(s) == DropTrailingSpace(DropWhileSpace(s))

\* str.lower() on a sequence of characters
Lower(s) ==
    [k \in 1..Len(s) |->
        CASE s[k] = "Y" -> "y"
          [] s[k] = "N" -> "n"
          [] s[k] = "X" -> "x"
          [] OTHER -> s[k]]

\* s[:n]: the first n characters, or all of a shorter s
Prefix(s, n) == SubSeq(s, 1, IF Len(s) < n THEN Len(s) ELSE n)

\* str.split(",") on a sequence of characters: always at least one field
RECURSIVE Split(_)
Split(s) ==
    IF \A k \in 1..Len(s) : s[k] # ","
    THEN <<s>>
    ELSE LET p == CHOOSE k \in 1..Len(s) :
                      s[k] = "," /\ \A j \in 1..(k - 1) : s[j] # ","
         IN <<SubSeq(s, 1, p - 1)>> \o Split(SubSeq(s, p + 1, Len(s)))

Digits == {"2", "3"}

DigitVal(c) == CASE c = "2" -> 2 [] c = "3" -> 3

RECURSIVE Decimal(_)
Decimal(s) == IF s = <<>> THEN 0 ELSE 10 * Decimal(SubSeq(s, 1, Len(s) - 1)) + DigitVal(s[Len(s)])

\* int(x) succeeds on optional surrounding whitespace around a nonempty run of digits
IsInt(s) == Strip(s) # <<>> /\ \A k \in 1..Len(Strip(s)) : Strip(s)[k] \in Digits

IntOf(s) == Decimal(Strip(s))

-----------------------------------------------------------------------------
(* Configuration (module constants, not part of transfer.py) *)

\* constants.REQUIRED_COLUMNS: client name and the four amount columns
REQUIRED_COLUMNS ==
    {"NAME", "IOLTA to Business", "MKT ACCT", "CASH'S LOAN", "BUILDING BONUS"}

\* the URLs the run compares browser.current_url with, and any other location
HOMEPAGE == "https://www.frostbank.com/"
ACCOUNTS_MAIN == "https://www.frostbank.com/mf/accounts/main"
TRANSFERS_MAIN == "https://www.frostbank.com/mf/transfers/main"
TRANSFERS_VERIFY == "https://www.frostbank.com/mf/transfers/verify"
TRANSFERS_CONFIRM == "https://www.frostbank.com/mf/transfers/confirm"
OTHER_URL == "about:other"

URLs == {HOMEPAGE, ACCOUNTS_MAIN, TRANSFERS_MAIN, TRANSFERS_VERIFY,
         TRANSFERS_CONFIRM, OTHER_URL}

\* default max_iter of wait_for_url_load
max_iter == 10

-----------------------------------------------------------------------------
(* pandas: a DataFrame is its column labels, its index labels and one row  *)
(* of cells per index label; NaN is a blank cell; None is no frame at all  *)

NaN == "NaN"

None == [none |-> TRUE]

IsNone(df) == "none" \in DOMAIN df

DataFrame(columns, index, data) == [columns |-> columns, index |-> index, data |-> data]

\* the column header as read: the label with optional blanks around it
Hdr(name, lpad, rpad) == [name |-> name, lpad |-> lpad, rpad |-> rpad]

\* col.strip() on a header
StripHeader(h) == [h EXCEPT !.lpad = FALSE, !.rpad = FALSE]

\* the column label that equals the string name
Col(name) == Hdr(name, FALSE, FALSE)

RECURSIVE Keep(_, _)
\* the subsequence of 1..n (ascending) of the positions in the set P
Keep(n, P) ==
    IF n = 0 THEN <<>>
    ELSE IF n \in P THEN Append(Keep(n - 1, P), n) ELSE Keep(n - 1, P)

Pick(s, positions) == [k \in 1..Len(positions) |-> s[positions[k]]]

\* DataFrame.dropna(axis=1, how="all")
DropEmptyColumns(df) ==
    LET live == {c \in 1..Len(df.columns) :
                    \E r \in 1..Len(df.index) : df.data[r][c] # NaN}
        cols == Keep(Len(df.columns), live)
    IN DataFrame(Pick(df.columns, cols), df.index,
                 [r \in 1..Len(df.index) |-> Pick(df.data[r], cols)])

ColumnPos(df, name) == CHOOSE c \in 1..Len(df.columns) : df.columns[c] = Col(name)

\* DataFrame.dropna(axis=0, subset=...) raises KeyError for a label that is no column
DropnaRaises(df, subset) == \E name \in subset : Col(name) \notin Range(df.columns)

\* variant: the kept rows are numbered anew from 0
DropRowsMissing_Reindexed(df, subset) ==
    LET full == {r \in 1..Len(df.index) :
                    \A c \in 1..Len(df.columns) :
                        (\E name \in subset : df.columns[c] = Col(name))
                            => df.data[r][c] # NaN}
        rows == Keep(Len(df.index), full)
    IN DataFrame(df.columns, [k \in 1..Len(rows) |-> k - 1], Pick(df.data, rows))

\* DataFrame.dropna(axis=0, subset=...): index labels of the kept rows stay as they were
DropRowsMissing(df, subset) ==
    LET full == {r \in 1..Len(df.index) :
                    \A name \in subset : df.data[r][ColumnPos(df, name)] # NaN}
        rows == Keep(Len(df.index), full)
    IN DataFrame(df.columns, Pick(df.index, rows), Pick(df.data, rows))

\* variant: the lookup raises only when none of the labels is in the index
LocRaises_AllMissing(df, idxs) == \A k \in 1..Len(idxs) : idxs[k] \notin Range(df.index)

\* DataFrame.loc[list] raises KeyError when any label is not in the index
LocRaises(df, idxs) == \E k \in 1..Len(idxs) : idxs[k] \notin Range(df.index)

RowPos(df, label) == CHOOSE r \in 1..Len(df.index) : df.index[r] = label

\* variant: a label given twice is looked up once
Loc_Unique(df, idxs) ==
    LET first == {k \in 1..Len(idxs) : \A j \in 1..(k - 1) : idxs[j] # idxs[k]}
        once == Pick(idxs, Keep(Len(idxs), first))
    IN DataFrame(df.columns, once,
                 [k \in 1..Len(once) |-> df.data[CHOOSE r \in 1..Len(df.index) :
                                                     df.index[r] = once[k]]])

\* DataFrame.loc[list]: one row per label given, in the order given (a label that is
\* not in the index, where the lookup does not raise, gives a row of blanks)
Loc(df, idxs) ==
    DataFrame(df.columns, idxs,
              [k \in 1..Len(idxs) |->
                  IF idxs[k] \in Range(df.index)
                  THEN df.data[RowPos(df, idxs[k])]
                  ELSE [c \in 1..Len(df.columns) |-> NaN]])

\* pd.concat([a, b]): None objects are dropped silently
Concat(a, b) ==
    IF IsNone(a) THEN b
    ELSE DataFrame(a.columns, a.index \o b.index, a.data \o b.data)

\* DataFrame.drop_duplicates(): the first row of every run of equal cells is kept
DropDuplicates(df) ==
    LET first == {r \in 1..Len(df.index) :
                    \A q \in 1..(r - 1) : df.data[q] # df.data[r]}
        rows == Keep(Len(df.index), first)
    IN DataFrame(df.columns, Pick(df.index, rows), Pick(df.data, rows))

Cell(df, r, name) == df.data[r][ColumnPos(df, name)]

-----------------------------------------------------------------------------
(* The workbooks the run is started on: pd.read_excel gives the header row *)
(* as column labels and numbers the records 0, 1, ... (sheet rows 2, 3,    *)
(* ...)                                                                    *)

SheetDuplicates ==
    DataFrame(<<Hdr("NAME", TRUE, FALSE), Hdr("IOLTA to Business", FALSE, FALSE),
                Hdr("MKT ACCT", FALSE, TRUE), Hdr("CASH'S LOAN", FALSE, FALSE),
                Hdr("BUILDING BONUS", FALSE, FALSE), Hdr("UNUSED", FALSE, FALSE)>>,
              <<0, 1>>,
              << <<"Ann", "100", "10", "5", "1", NaN>>,
                 <<"Ann", "100", "10", "5", "1", NaN>> >>)

SheetDistinct ==
    DataFrame(<<Hdr("NAME", FALSE, FALSE), Hdr("IOLTA to Business", FALSE, FALSE),
                Hdr("MKT ACCT", FALSE, FALSE), Hdr("CASH'S LOAN", FALSE, FALSE),
                Hdr("BUILDING BONUS", FALSE, FALSE)>>,
              <<0, 1>>,
              << <<"Ann", "100", "10", "5", "1">>,
                 <<"Bob", "200", "0", "0", "0">> >>)

SheetBlankRow ==
    DataFrame(<<Hdr("NAME", FALSE, FALSE), Hdr("IOLTA to Business", FALSE, FALSE),
                Hdr("MKT ACCT", FALSE, FALSE), Hdr("CASH'S LOAN", FALSE, FALSE),
                Hdr("BUILDING BONUS", FALSE, FALSE)>>,
              <<0, 1>>,
              << <<"Cy", "300", NaN, "0", "0">>,
                 <<"Bob", "200", "0", "0", "0">> >>)

SheetMissingColumn ==
    DataFrame(<<Hdr("NAME", FALSE, FALSE), Hdr("IOLTA to Business", FALSE, FALSE),
                Hdr("CASH'S LOAN", FALSE, FALSE), Hdr("BUILDING BONUS", FALSE, FALSE)>>,
              <<0, 1>>,
              << <<"Ann", "100", "5", "1">>,
                 <<"Bob", "200", "0", "0">> >>)

SheetEmptyColumn ==
    DataFrame(<<Hdr("NAME", FALSE, FALSE), Hdr("IOLTA to Business", FALSE, FALSE),
                Hdr("MKT ACCT", FALSE, FALSE), Hdr("CASH'S LOAN", FALSE, FALSE),
                Hdr("BUILDING BONUS", FALSE, FALSE)>>,
              <<0, 1>>,
              << <<"Ann", "100", NaN, "5", "1">>,
                 <<"Bob", "200", NaN, "0", "0">> >>)

Workbooks ==
    {SheetDuplicates, SheetDistinct, SheetBlankRow, SheetMissingColumn, SheetEmptyColumn}

\* xl_file.sheet_names of every workbook, and what the operator may type
SheetNames == {"Settlements2024"}

SheetNameInputs == {"Settlements2024", "Sheet9"}

-----------------------------------------------------------------------------
(* What the operator may type at the prompts *)

RowChars == Digits \cup {",", " "}

RowInputs == SeqsUpTo(RowChars, MaxLen)

YesNoChars == {"y", "N", " ", "x"}

Responses == SeqsUpTo(YesNoChars, MaxResp)

-----------------------------------------------------------------------------
(* Messages and exceptions recorded in out *)

MsgSheetNotFound == "Sheet not found."
MsgMissingColumns == "Columns are missing from the spreadsheet."
MsgRowUnavailable == "Row unavailable for transfer."
MsgRespondYesNo == "Please respond with yes or no"
MsgNoRowsSelected == "No rows selected"
MsgNoCasesSelected == "No settlement cases selected, aborting transfer."
MsgNoAdditional == "No additional settlements added"
MsgNotExecuted == "Transfer not executed"
MsgExecuting == "Executing transfers..."
MsgLoginFailed == "Failed to login."
MsgFailedToReach == "Failed to reach url. Aborting, please try again."
ExcNavigation == "Exception: Failed to navigate to transfers page."

\* the positions at which the process is over
Terminal == {"exited", "raised", "returned"}

ExecVars == <<transfer_items, item, ord, url, i, polling, browser>>

-----------------------------------------------------------------------------
(* SettlementData.__init__ *)

\* get_settlement_sheet_name, then read_settlements_file
GetSettlementSheetName ==
    /\ pc = "sheet_name"
    /\ \E desired_sheet \in SheetNameInputs :
          IF desired_sheet \in SheetNames
          THEN /\ pc' = "preprocess"
               /\ out' = out
          ELSE /\ pc' = pc
               /\ out' = MsgSheetNotFound
    /\ UNCHANGED <<caller, settlements_df, sub_df, settlement_rows, appends, hist>>
    /\ UNCHANGED ExecVars

PreprocessSettlementsDf ==
    /\ pc = "preprocess"
    /\ LET renamed == DataFrame([c \in 1..Len(settlements_df.columns) |->
                                    StripHeader(settlements_df.columns[c])],
                                settlements_df.index, settlements_df.data)
           trimmed == DropEmptyColumns(renamed)
       IN IF DropnaRaises(trimmed, REQUIRED_COLUMNS)
          THEN /\ settlements_df' = trimmed
               /\ pc' = "raised"
               /\ out' = "KeyError"
          ELSE /\ settlements_df' = DropRowsMissing(trimmed, REQUIRED_COLUMNS)
               /\ pc' = "validate"
               /\ out' = out
    /\ UNCHANGED <<caller, sub_df, settlement_rows, appends, hist>>
    /\ UNCHANGED ExecVars

ValidateColumns ==
    /\ pc = "validate"
    /\ LET missing_columns == {name \in REQUIRED_COLUMNS :
                                   Col(name) \notin Range(settlements_df.columns)}
       IN IF Cardinality(missing_columns) # 0
          THEN /\ pc' = "exited"
               /\ out' = MsgMissingColumns
               /\ caller' = caller
          ELSE /\ pc' = "row_input"
               /\ out' = out
               /\ caller' = "init"
    /\ UNCHANGED <<settlements_df, sub_df, settlement_rows, appends, hist>>
    /\ UNCHANGED ExecVars

-----------------------------------------------------------------------------
(* select_settlements_by_row and the prompts it makes *)

\* parse_row_input raises ValueError when a field is no integer
ParseRaises(row_input) ==
    \E k \in 1..Len(Split(row_input)) : ~IsInt(Split(row_input)[k])

parse_row_input(row_input) ==
    [k \in 1..Len(Split(row_input)) |-> IntOf(Split(row_input)[k])]

\* variant: the line typed is not stripped
response_is_yes_Unstripped(typed) ==
    LET response == Lower(typed)
    IN IF Prefix(response, 1) = <<"y">> THEN "yes"
       ELSE IF Prefix(response, 1) = <<"n">> THEN "no"
       ELSE "again"

\* response_is_yes on one line typed: "again" stands for the recursive re-prompt
response_is_yes(typed) ==
    LET response == Strip(Lower(typed))
    IN IF Prefix(response, 1) = <<"y">> THEN "yes"
       ELSE IF Prefix(response, 1) = <<"n">> THEN "no"
       ELSE "again"

\* the first character typed that is no blank ("" when there is none)
FirstNonBlank(typed) ==
    LET at == {k \in 1..Len(typed) : typed[k] # " "}
    IN IF at = {} THEN "" ELSE typed[CHOOSE k \in at : \A j \in at : k <= j]

\* the record of a yes/no prompt: what was typed and which way the caller went
Answered(h, typed, taken) ==
    [h EXCEPT !.first = FirstNonBlank(typed), !.answer = taken]

\* variant: the rejected candidate rows are returned
NoRowsSelected_Candidate(candidate) == candidate

\* the value select_settlements_by_row returns once the operator declines to re-enter
NoRowsSelected(candidate) == None

\* the return of select_settlements_by_row to its caller
ReturnFromSelect(result) ==
    IF caller = "init"
    THEN /\ settlement_rows' = result
         /\ sub_df' = None
         /\ pc' = "constructed"
    ELSE \* append_more_settlement_rows: df_append[constants.DISPLAY_COLUMNS]
         /\ settlement_rows' = settlement_rows
         /\ sub_df' = result
         /\ pc' = IF IsNone(result) THEN "raised" ELSE "add_rows"

\* the cell of a column of the sheet as loaded, at a sheet row number (the header
\* is sheet row 1, the first record sheet row 2)
SheetCell(sheet, row, label) ==
    sheet.data[row - 1][CHOOSE c \in 1..Len(sheet.columns) :
                            StripHeader(sheet.columns[c]) = label]

\* the sheet row of that number is a record with a required cell left blank
BlankInSheet(sheet, row) ==
    /\ row - 1 \in 1..Len(sheet.data)
    /\ \E name \in REQUIRED_COLUMNS : SheetCell(sheet, row, Col(name)) = NaN

\* the row-number prompt, parse_row_input and settlements_df.loc
SelectSettlementsByRow ==
    /\ pc = "row_input"
    /\ \E row_input \in RowInputs :
          IF ParseRaises(row_input)
          THEN /\ pc' = "raised"
               /\ out' = "ValueError"
               /\ hist' = [hist EXCEPT !.absent = FALSE, !.blank = FALSE]
               /\ sub_df' = sub_df
          ELSE LET rows == parse_row_input(row_input)
                   idxs == [k \in 1..Len(rows) |-> rows[k] - 2]
                   absent == \E k \in 1..Len(rows) :
                                 rows[k] - 2 \notin Range(settlements_df.index)
               IN /\ hist' = [hist EXCEPT
                               !.absent = absent,
                               !.blank = \E k \in 1..Len(rows) :
                                             BlankInSheet(hist.raw, rows[k]),
                               !.rows = IF absent THEN <<>> ELSE rows,
                               !.shown = IF LocRaises(settlements_df, idxs)
                                         THEN @ ELSE @ \cup Range(idxs)]
                  /\ IF LocRaises(settlements_df, idxs)
                     THEN /\ pc' = pc
                          /\ out' = MsgRowUnavailable
                          /\ sub_df' = sub_df
                     ELSE /\ pc' = "rows_correct"
                          /\ out' = out
                          /\ sub_df' = Loc(settlements_df, idxs)
    /\ UNCHANGED <<caller, settlements_df, settlement_rows, appends>>
    /\ UNCHANGED ExecVars

\* row_input_is_correct: "Are these the correct rows?"
RowInputIsCorrect ==
    /\ pc = "rows_correct"
    /\ \E typed \in Responses :
          LET answer == response_is_yes(typed)
          IN CASE answer = "yes" ->
                    /\ ReturnFromSelect(sub_df)
                    /\ out' = out
                    /\ hist' = Answered(IF caller = "init"
                                        THEN [hist EXCEPT
                                                !.approved = Range(sub_df.index)]
                                        ELSE hist, typed, "yes")
               [] answer = "no" ->
                    /\ pc' = "reinput"
                    /\ out' = out
                    /\ hist' = Answered(hist, typed, "no")
                    /\ UNCHANGED <<sub_df, settlement_rows>>
               [] OTHER ->
                    /\ pc' = pc
                    /\ out' = MsgRespondYesNo
                    /\ hist' = Answered(hist, typed, "again")
                    /\ UNCHANGED <<sub_df, settlement_rows>>
    /\ UNCHANGED <<caller, settlements_df, appends>>
    /\ UNCHANGED ExecVars

\* "Would you like to try inputting the rows again?"
ReinputPrompt ==
    /\ pc = "reinput"
    /\ \E typed \in Responses :
          LET answer == response_is_yes(typed)
          IN CASE answer = "yes" ->
                    /\ pc' = "row_input"
                    /\ out' = out
                    /\ hist' = Answered(hist, typed, "yes")
                    /\ UNCHANGED <<sub_df, settlement_rows>>
               [] answer = "no" ->
                    /\ ReturnFromSelect(NoRowsSelected(sub_df))
                    /\ out' = IF caller = "append" /\ IsNone(NoRowsSelected(sub_df))
                              THEN "TypeError" ELSE MsgNoRowsSelected
                    /\ hist' = Answered(hist, typed, "no")
               [] OTHER ->
                    /\ pc' = pc
                    /\ out' = MsgRespondYesNo
                    /\ hist' = Answered(hist, typed, "again")
                    /\ UNCHANGED <<sub_df, settlement_rows>>
    /\ UNCHANGED <<caller, settlements_df, appends>>
    /\ UNCHANGED ExecVars

-----------------------------------------------------------------------------
(* The calls made on the constructed SettlementData *)

\* __main__: no rows were selected at construction
MainNoRows ==
    /\ pc = "constructed"
    /\ IsNone(settlement_rows)
    /\ pc' = "exited"
    /\ out' = MsgNoCasesSelected
    /\ UNCHANGED <<caller, settlements_df, sub_df, settlement_rows, appends, hist>>
    /\ UNCHANGED ExecVars

\* append_more_settlement_rows is entered: it starts with select_settlements_by_row
AppendMoreSettlementRows ==
    /\ pc = "constructed"
    /\ ~IsNone(settlement_rows)
    /\ appends < MaxAppends
    /\ appends' = appends + 1
    /\ caller' = "append"
    /\ pc' = "row_input"
    /\ UNCHANGED <<settlements_df, sub_df, settlement_rows, out, hist>>
    /\ UNCHANGED ExecVars

\* append_more_settlement_rows: "Would you like to add these rows?"
AddRowsPrompt ==
    /\ pc = "add_rows"
    /\ \E typed \in Responses :
          LET answer == response_is_yes(typed)
          IN CASE answer = "yes" ->
                    /\ settlement_rows' = Concat(settlement_rows, sub_df)
                    /\ hist' = Answered([hist EXCEPT
                                            !.approved = @ \cup Range(sub_df.index),
                                            !.rows = <<>>], typed, "yes")
                    /\ sub_df' = None
                    /\ pc' = "constructed"
                    /\ out' = out
               [] answer = "no" ->
                    /\ out' = MsgNoAdditional
                    /\ hist' = Answered([hist EXCEPT !.rows = <<>>], typed, "no")
                    /\ sub_df' = None
                    /\ pc' = "constructed"
                    /\ UNCHANGED settlement_rows
               [] OTHER ->
                    /\ pc' = pc
                    /\ out' = MsgRespondYesNo
                    /\ hist' = Answered(hist, typed, "again")
                    /\ UNCHANGED <<sub_df, settlement_rows>>
    /\ UNCHANGED <<caller, settlements_df, appends>>
    /\ UNCHANGED ExecVars

\* variant: the rows are left as selected
preprocess_settlement_rows_for_transfer_Keep(rows) == rows

preprocess_settlement_rows_for_transfer(rows) == DropDuplicates(rows)

\* SettlementCase(row): parse_settlement_series; label is the row's index label
SettlementCase(df, r) ==
    [label |-> df.index[r],
     client_name |-> Cell(df, r, "NAME"),
     amount_iolta_to_operating |-> Cell(df, r, "IOLTA to Business"),
     amount_operating_to_marketing |-> Cell(df, r, "MKT ACCT"),
     amount_operating_to_cash |-> Cell(df, r, "CASH'S LOAN"),
     amount_operating_to_building |-> Cell(df, r, "BUILDING BONUS")]

convert_settlement_rows_to_transfer_items(df) ==
    [r \in 1..Len(df.index) |-> SettlementCase(df, r)]

\* execute_transfers up to its prompt
ExecuteTransfers ==
    /\ pc = "constructed"
    /\ ~IsNone(settlement_rows)
    /\ settlement_rows' = preprocess_settlement_rows_for_transfer(settlement_rows)
    /\ pc' = "execute_confirm"
    /\ hist' = [hist EXCEPT !.rows = <<>>]
    /\ UNCHANGED <<caller, settlements_df, sub_df, appends, out>>
    /\ UNCHANGED ExecVars

\* variant: the transfers are executed whatever is answered
ExecuteConfirm_ProceedsOnNo ==
    /\ pc = "execute_confirm"
    /\ \E typed \in Responses :
          LET answer == response_is_yes(typed)
          IN CASE answer = "yes" ->
                    /\ out' = MsgExecuting
                    /\ transfer_items' =
                           convert_settlement_rows_to_transfer_items(settlement_rows)
                    /\ pc' = "init_browser"
                    /\ hist' = Answered(hist, typed, "yes")
               [] answer = "no" ->
                    /\ out' = MsgExecuting
                    /\ transfer_items' =
                           convert_settlement_rows_to_transfer_items(settlement_rows)
                    /\ pc' = "init_browser"
                    /\ hist' = Answered(hist, typed, "no")
               [] OTHER ->
                    /\ pc' = pc
                    /\ out' = MsgRespondYesNo
                    /\ hist' = Answered(hist, typed, "again")
                    /\ UNCHANGED transfer_items
    /\ UNCHANGED <<caller, settlements_df, sub_df, settlement_rows, appends>>
    /\ UNCHANGED <<item, ord, url, i, polling, browser>>

\* execute_transfers: "Would you like to execute transfers on these rows?"
ExecuteConfirm ==
    /\ pc = "execute_confirm"
    /\ \E typed \in Responses :
          LET answer == response_is_yes(typed)
          IN CASE answer = "yes" ->
                    /\ out' = MsgExecuting
                    /\ transfer_items' =
                           convert_settlement_rows_to_transfer_items(settlement_rows)
                    /\ pc' = "init_browser"
                    /\ hist' = Answered(hist, typed, "yes")
               [] answer = "no" ->
                    /\ out' = MsgNotExecuted
                    /\ pc' = "returned"
                    /\ hist' = Answered(hist, typed, "no")
                    /\ UNCHANGED transfer_items
               [] OTHER ->
                    /\ pc' = pc
                    /\ out' = MsgRespondYesNo
                    /\ hist' = Answered(hist, typed, "again")
                    /\ UNCHANGED transfer_items
    /\ UNCHANGED <<caller, settlements_df, sub_df, settlement_rows, appends>>
    /\ UNCHANGED <<item, ord, url, i, polling, browser>>

-----------------------------------------------------------------------------
(* perform_transfers_via_selenium *)

\* variant: the cash-loan order carries the marketing amount
initialize_transfer_dict_CashFromMarketing(settlement_item) ==
    << [from_acct |-> "Iolta", to_acct |-> "Operating",
        from_acct_num |-> "IOLTA_ACCT_NUM", to_acct_num |-> "OPERATING_ACCT_NUM",
        amount |-> settlement_item.amount_iolta_to_operating,
        name |-> settlement_item.client_name],
       [from_acct |-> "Operating", to_acct |-> "Marketing",
        from_acct_num |-> "OPERATING_ACCT_NUM", to_acct_num |-> "MARKETING_ACCT_NUM",
        amount |-> settlement_item.amount_operating_to_marketing,
        name |-> settlement_item.client_name],
       [from_acct |-> "Operating", to_acct |-> "Cash Loan Repayment Fund",
        from_acct_num |-> "OPERATING_ACCT_NUM", to_acct_num |-> "CASH_ACCT_NUM",
        amount |-> settlement_item.amount_operating_to_marketing,
        name |-> settlement_item.client_name],
       [from_acct |-> "Operating", to_acct |-> "Building",
        from_acct_num |-> "OPERATING_ACCT_NUM", to_acct_num |-> "BUILDING_ACCT_NUM",
        amount |-> settlement_item.amount_operating_to_building,
        name |-> settlement_item.client_name] >>

\* the four dicts built for one settlement item, in list order
initialize_transfer_dict(settlement_item) ==
    << [from_acct |-> "Iolta", to_acct |-> "Operating",
        from_acct_num |-> "IOLTA_ACCT_NUM", to_acct_num |-> "OPERATING_ACCT_NUM",
        amount |-> settlement_item.amount_iolta_to_operating,
        name |-> settlement_item.client_name],
       [from_acct |-> "Operating", to_acct |-> "Marketing",
        from_acct_num |-> "OPERATING_ACCT_NUM", to_acct_num |-> "MARKETING_ACCT_NUM",
        amount |-> settlement_item.amount_operating_to_marketing,
        name |-> settlement_item.client_name],
       [from_acct |-> "Operating", to_acct |-> "Cash Loan Repayment Fund",
        from_acct_num |-> "OPERATING_ACCT_NUM", to_acct_num |-> "CASH_ACCT_NUM",
        amount |-> settlement_item.amount_operating_to_cash,
        name |-> settlement_item.client_name],
       [from_acct |-> "Operating", to_acct |-> "Building",
        from_acct_num |-> "OPERATING_ACCT_NUM", to_acct_num |-> "BUILDING_ACCT_NUM",
        amount |-> settlement_item.amount_operating_to_building,
        name |-> settlement_item.client_name] >>

\* the order the loops are at, with the row it was planned from
CurrentOrder ==
    [label |-> transfer_items[item].label,
     order |-> initialize_transfer_dict(transfer_items[item])[ord]]

WaitPcs == {"wait_home", "wait_accounts", "wait_transfers", "wait_verify", "wait_confirm"}

\* variant: the wait after submit_transfer is for the verify page it is already on
WaitUrl_ConfirmIsVerify(at) ==
    CASE at = "wait_home" -> HOMEPAGE
      [] at = "wait_accounts" -> ACCOUNTS_MAIN
      [] at = "wait_transfers" -> TRANSFERS_MAIN
      [] at = "wait_verify" -> TRANSFERS_VERIFY
      [] at = "wait_confirm" -> TRANSFERS_VERIFY

\* the url argument of each call of wait_for_url_load
WaitUrl(at) ==
    CASE at = "wait_home" -> HOMEPAGE
      [] at = "wait_accounts" -> ACCOUNTS_MAIN
      [] at = "wait_transfers" -> TRANSFERS_MAIN
      [] at = "wait_verify" -> TRANSFERS_VERIFY
      [] at = "wait_confirm" -> TRANSFERS_CONFIRM

\* variant: the form is filled from the to-account on
AfterWait_SkipsFromAccount(at) ==
    CASE at = "wait_home" -> "login"
      [] at = "wait_accounts" -> "verify_login"
      [] at = "wait_transfers" -> "to_account"
      [] at = "wait_verify" -> "submit"
      [] at = "wait_confirm" -> "another"

\* the statement after each call of wait_for_url_load
AfterWait(at) ==
    CASE at = "wait_home" -> "login"
      [] at = "wait_accounts" -> "verify_login"
      [] at = "wait_transfers" -> "verify_nav"
      [] at = "wait_verify" -> "submit"
      [] at = "wait_confirm" -> "another"

RECURSIVE Perform(_, _)
\* the record of the clicks, typed texts and sent keys ("ui") and of the calls of
\* sleep_random_time and the randomized ActionChains pauses ("delay") of a step, in
\* statement order: hot says the last UI action has had no delay after it yet,
\* rushed that some UI action was issued in that condition
Perform(h, events) ==
    IF events = <<>> THEN h
    ELSE Perform(IF Head(events) = "ui"
                 THEN [h EXCEPT !.rushed = @ \/ h.hot, !.hot = TRUE]
                 ELSE [h EXCEPT !.hot = FALSE],
                 Tail(events))

\* the exception each element lookup raises once its tries are used up
ExcUnableToLoad(function) ==
    CASE function = "execute_login" -> "Unable to load main page. Please try again."
      [] function = "navigate_to_transfers" ->
             "Unable to load main accounts page. Please try again."
      [] function = "select_from_account" ->
             "Unable to load transfers page. Please try again."
      [] function = "submit_transfer" ->
             "Unable to load confirmation page. Please try again."
      [] function = "click_make_another_transfer" ->
             "Unable to load completion page. Please try again."

Raise(exception) ==
    /\ pc' = "raised"
    /\ out' = exception

SelectionVars == <<caller, settlements_df, sub_df, settlement_rows, appends>>

InitializeBrowser ==
    /\ pc = "init_browser"
    /\ browser' = "open"
    /\ url' = HOMEPAGE
    /\ hist' = [hist EXCEPT !.opened = @ + 1]
    /\ i' = 0
    /\ pc' = "wait_home"
    /\ UNCHANGED SelectionVars
    /\ UNCHANGED <<out, transfer_items, item, ord, polling>>

\* what wait_for_url_load does with the counter after a failed comparison
WaitStep(count) == IF count < PollCap THEN count + 1 ELSE count

\* wait_for_url_load: one evaluation of the loop condition browser.current_url != url
WaitForUrlLoad ==
    /\ pc \in WaitPcs
    /\ ~polling
    /\ IF url # WaitUrl(pc)
       THEN /\ polling' = TRUE
            /\ UNCHANGED <<pc, i, hist>>
       ELSE /\ polling' = FALSE
            /\ i' = 0
            /\ pc' = AfterWait(pc)
            /\ hist' = Perform(CASE pc = "wait_transfers" ->
                                   [hist EXCEPT
                                      !.steps = IF url = TRANSFERS_MAIN
                                                THEN <<"transfers_page">> ELSE <<>>,
                                      !.seen_main = "",
                                      !.seen_verify = ""]
                                 [] pc = "wait_verify" ->
                                   [hist EXCEPT
                                      !.steps = IF url = TRANSFERS_VERIFY
                                                THEN Append(@, "verify_page") ELSE @,
                                      !.seen_verify = url]
                                 [] pc = "wait_confirm" ->
                                   [hist EXCEPT
                                      !.reached = IF url = TRANSFERS_CONFIRM
                                                  THEN Append(@, CurrentOrder) ELSE @,
                                      !.steps = IF url = TRANSFERS_CONFIRM
                                                THEN Append(@, "confirm_page") ELSE @]
                                 [] OTHER -> hist,
                               \* sleep_random_time follows every call
                               <<"delay">>)
    /\ UNCHANGED SelectionVars
    /\ UNCHANGED <<out, transfer_items, item, ord, url, browser>>

\* wait_for_url_load: one pass of the loop body (count, report past max_iter, sleep)
WaitForUrlLoadBody ==
    /\ pc \in WaitPcs
    /\ polling
    /\ i' = WaitStep(i)
    /\ out' = IF i' > max_iter THEN MsgFailedToReach ELSE out
    /\ polling' = FALSE
    /\ UNCHANGED SelectionVars
    /\ UNCHANGED <<pc, hist, transfer_items, item, ord, url, browser>>

ExecuteLogin ==
    /\ pc = "login"
    /\ \E user_found \in BOOLEAN, pass_found \in BOOLEAN :
          IF ~user_found
          THEN \* i = 1 < 5: sleep, then user_field is read unassigned
               /\ Raise("UnboundLocalError")
               /\ hist' = Perform([hist EXCEPT !.lost = "execute_login"], <<"delay">>)
               /\ i' = i
          ELSE IF ~pass_found
          THEN /\ Raise("NoSuchElementException")
               /\ hist' = Perform(hist, <<"delay", "ui", "delay">>)
               /\ i' = i
          ELSE \* send_keys(user) and send_keys(pwd) each after a delay, then
               \* send_keys(Keys.RETURN) as the next statement
               /\ hist' = Perform([hist EXCEPT !.creds = TRUE,
                                               !.logins = @ + 1,
                                               !.arrived = (url = ACCOUNTS_MAIN)],
                                  <<"delay", "ui", "delay", "delay", "ui", "ui">>)
               /\ pc' = "wait_accounts"
               /\ i' = 0
               /\ out' = out
    /\ UNCHANGED SelectionVars
    /\ UNCHANGED <<transfer_items, item, ord, url, browser, polling>>

\* variant: the session is closed before the process exits
VerifyLogin_ClosesSession ==
    /\ pc = "verify_login"
    /\ IF url # ACCOUNTS_MAIN
       THEN /\ pc' = "exited"
            /\ out' = MsgLoginFailed
            /\ browser' = "closed"
            /\ hist' = [hist EXCEPT !.closed = @ + 1]
       ELSE /\ pc' = "navigate"
            /\ out' = out
            /\ UNCHANGED <<browser, hist>>
    /\ UNCHANGED <<caller, settlements_df, sub_df, settlement_rows, appends>>
    /\ UNCHANGED <<transfer_items, item, ord, url, i, polling>>

VerifyLogin ==
    /\ pc = "verify_login"
    /\ IF url # ACCOUNTS_MAIN
       THEN /\ pc' = "exited"
            /\ out' = MsgLoginFailed
       ELSE /\ pc' = "navigate"
            /\ out' = out
    /\ UNCHANGED SelectionVars
    /\ UNCHANGED <<hist, transfer_items, item, ord, url, i, browser, polling>>

NavigateToTransfers ==
    /\ pc = "navigate"
    /\ \E found \in BOOLEAN :
          IF ~found
          THEN \* i = i + 1 reads a local never assigned
               /\ Raise("UnboundLocalError")
               /\ hist' = [hist EXCEPT !.lost = "navigate_to_transfers"]
               /\ UNCHANGED <<item, ord, i>>
          ELSE /\ pc' = "wait_transfers"
               /\ item' = 1
               /\ ord' = 1
               /\ i' = 0
               /\ out' = out
               \* TAB three times, ARROW_DOWN, ENTER, a pause after each
               /\ hist' = Perform(hist, <<"ui", "delay", "ui", "delay", "ui", "delay",
                                          "ui", "delay", "ui", "delay">>)
    /\ UNCHANGED SelectionVars
    /\ UNCHANGED <<transfer_items, url, browser, polling>>

\* variant: the form is filled whatever the location is
VerifyNavigationToTransfers_NoCheck ==
    /\ pc = "verify_nav"
    /\ pc' = "from_account"
    /\ out' = out
    /\ hist' = [hist EXCEPT !.seen_main = url]
    /\ UNCHANGED SelectionVars
    /\ UNCHANGED <<transfer_items, item, ord, url, i, browser, polling>>

VerifyNavigationToTransfers ==
    /\ pc = "verify_nav"
    /\ IF url # TRANSFERS_MAIN
       THEN Raise(ExcNavigation)
       ELSE /\ pc' = "from_account"
            /\ out' = out
    /\ hist' = [hist EXCEPT !.seen_main = url]
    /\ UNCHANGED SelectionVars
    /\ UNCHANGED <<transfer_items, item, ord, url, i, browser, polling>>

\* select_from_account: the dropdown is clicked, then the row of the account number
SelectFromAccount ==
    /\ pc = "from_account"
    /\ \E found \in BOOLEAN, row_found \in BOOLEAN :
          IF ~found
          THEN /\ Raise("UnboundLocalError")
               /\ hist' = [hist EXCEPT !.lost = "select_from_account"]
          ELSE /\ hist' = Perform([hist EXCEPT
                                       !.acted = Append(@, CurrentOrder),
                                       !.steps = IF row_found
                                                 THEN Append(@, "from_account")
                                                 ELSE @],
                                  IF row_found THEN <<"ui", "delay", "ui", "delay">>
                                  ELSE <<"ui", "delay">>)
               /\ IF ~row_found
                  THEN Raise("IndexError")
                  ELSE pc' = "to_account" /\ out' = out
    /\ UNCHANGED SelectionVars
    /\ UNCHANGED ExecVars

SelectToAccount ==
    /\ pc = "to_account"
    /\ \E found \in BOOLEAN, row_found \in BOOLEAN :
          IF ~found THEN Raise("NoSuchElementException") /\ hist' = hist
          ELSE IF ~row_found
          THEN Raise("IndexError") /\ hist' = Perform(hist, <<"ui", "delay">>)
          ELSE /\ pc' = "amount"
               /\ out' = out
               /\ hist' = Perform([hist EXCEPT !.steps = Append(@, "to_account")],
                                  <<"ui", "delay", "ui", "delay">>)
    /\ UNCHANGED SelectionVars
    /\ UNCHANGED ExecVars

InsertAmount ==
    /\ pc = "amount"
    /\ \E found \in BOOLEAN :
          IF ~found THEN Raise("NoSuchElementException") /\ hist' = hist
          ELSE /\ pc' = "memo"
               /\ out' = out
               /\ hist' = Perform([hist EXCEPT !.steps = Append(@, "amount")],
                                  <<"ui", "delay">>)
    /\ UNCHANGED SelectionVars
    /\ UNCHANGED ExecVars

InsertMemo ==
    /\ pc = "memo"
    /\ \E found \in BOOLEAN :
          IF ~found THEN Raise("NoSuchElementException") /\ hist' = hist
          ELSE /\ pc' = "click_next"
               /\ out' = out
               /\ hist' = Perform([hist EXCEPT !.steps = Append(@, "memo")],
                                  <<"ui", "delay">>)
    /\ UNCHANGED SelectionVars
    /\ UNCHANGED ExecVars

ClickNext ==
    /\ pc = "click_next"
    /\ \E found \in BOOLEAN :
          IF ~found
          THEN Raise("NoSuchElementException") /\ i' = i /\ hist' = hist
          ELSE /\ pc' = "wait_verify"
               /\ out' = out
               /\ i' = 0
               /\ hist' = Perform([hist EXCEPT !.steps = Append(@, "next")],
                                  <<"ui">>)
    /\ UNCHANGED SelectionVars
    /\ UNCHANGED <<transfer_items, item, ord, url, browser, polling>>

\* variant: the confirmation button is clicked twice
SubmitTransfer_ClicksTwice ==
    /\ pc = "submit"
    /\ \E found \in BOOLEAN :
          IF ~found
          THEN /\ Raise("UnboundLocalError")
               /\ hist' = [hist EXCEPT !.lost = "submit_transfer"]
               /\ i' = i
          ELSE /\ hist' = Perform([hist EXCEPT
                                       !.submitted =
                                           Append(Append(@, CurrentOrder), CurrentOrder),
                                       !.steps = Append(@, "submit")],
                                  <<"ui">>)
               /\ pc' = "wait_confirm"
               /\ out' = out
               /\ i' = 0
    /\ UNCHANGED SelectionVars
    /\ UNCHANGED <<transfer_items, item, ord, url, browser, polling>>

SubmitTransfer ==
    /\ pc = "submit"
    /\ \E found \in BOOLEAN :
          IF ~found
          THEN /\ Raise("UnboundLocalError")
               /\ hist' = [hist EXCEPT !.lost = "submit_transfer"]
               /\ i' = i
          ELSE /\ hist' = Perform([hist EXCEPT !.submitted = Append(@, CurrentOrder),
                                               !.steps = Append(@, "submit")],
                                  <<"ui">>)
               /\ pc' = "wait_confirm"
               /\ out' = out
               /\ i' = 0
    /\ UNCHANGED SelectionVars
    /\ UNCHANGED <<transfer_items, item, ord, url, browser, polling>>

\* click_make_another_transfer, the loop steps after it, and browser.close() after
\* the last order of the last item
ClickMakeAnotherTransfer ==
    /\ pc = "another"
    /\ \E found \in BOOLEAN :
          IF ~found
          THEN /\ Raise("UnboundLocalError")
               /\ hist' = [hist EXCEPT !.lost = "click_make_another_transfer"]
               /\ UNCHANGED <<item, ord, browser>>
          ELSE /\ out' = out
               /\ IF ord < Len(initialize_transfer_dict(transfer_items[item]))
                  THEN /\ ord' = ord + 1
                       /\ pc' = "wait_transfers"
                       /\ hist' = Perform([hist EXCEPT !.steps = Append(@, "another")],
                                          <<"ui">>)
                       /\ UNCHANGED <<item, browser>>
                  ELSE IF item < Len(transfer_items)
                  THEN /\ item' = item + 1
                       /\ ord' = 1
                       /\ pc' = "wait_transfers"
                       /\ hist' = Perform([hist EXCEPT !.steps = Append(@, "another")],
                                          <<"ui">>)
                       /\ UNCHANGED browser
                  ELSE /\ browser' = "closed"
                       /\ hist' = Perform([hist EXCEPT !.closed = @ + 1,
                                                       !.steps = Append(@, "another")],
                                          <<"ui">>)
                       /\ pc' = "returned"
                       /\ UNCHANGED <<item, ord>>
    /\ UNCHANGED SelectionVars
    /\ UNCHANGED <<transfer_items, url, i, polling>>

\* The bank's site and the browser: the location changes under the run
BrowserNavigates ==
    /\ browser = "open"
    /\ pc \notin Terminal
    /\ \E to \in URLs \ {url} :
          /\ url' = to
          /\ hist' = [hist EXCEPT !.arrived = @ \/ (hist.creds /\ to = ACCOUNTS_MAIN)]
    /\ UNCHANGED SelectionVars
    /\ UNCHANGED <<pc, out, transfer_items, item, ord, i, browser, polling>>

-----------------------------------------------------------------------------
(* The specification *)

Init ==
    /\ pc = "sheet_name"
    /\ caller = "init"
    /\ settlements_df \in Workbooks
    /\ sub_df = None
    /\ settlement_rows = None
    /\ appends = 0
    /\ out = ""
    /\ transfer_items = <<>>
    /\ item = 0
    /\ ord = 0
    /\ url = OTHER_URL
    /\ i = 0
    /\ polling = FALSE
    /\ browser = "none"
    /\ hist = [raw |-> settlements_df, blank |-> FALSE,
               absent |-> FALSE, rows |-> <<>>, shown |-> {}, approved |-> {}, acted |-> <<>>, submitted |-> <<>>, reached |-> <<>>,
               opened |-> 0, closed |-> 0, creds |-> FALSE, arrived |-> FALSE,
               logins |-> 0, steps |-> <<>>, first |-> "", answer |-> "none",
               lost |-> "", hot |-> FALSE, rushed |-> FALSE,
               seen_main |-> "", seen_verify |-> ""]

\* the steps of the program itself
Program ==
    \/ GetSettlementSheetName
    \/ PreprocessSettlementsDf
    \/ ValidateColumns
    \/ SelectSettlementsByRow
    \/ RowInputIsCorrect
    \/ ReinputPrompt
    \/ MainNoRows
    \/ AppendMoreSettlementRows
    \/ AddRowsPrompt
    \/ ExecuteTransfers
    \/ ExecuteConfirm
    \/ InitializeBrowser
    \/ WaitForUrlLoad
    \/ WaitForUrlLoadBody
    \/ ExecuteLogin
    \/ VerifyLogin
    \/ NavigateToTransfers
    \/ VerifyNavigationToTransfers
    \/ SelectFromAccount
    \/ SelectToAccount
    \/ InsertAmount
    \/ InsertMemo
    \/ ClickNext
    \/ SubmitTransfer
    \/ ClickMakeAnotherTransfer

Next == Program \/ BrowserNavigates

Spec == Init /\ [][Next]_vars

\* a started process keeps executing: its next statement is eventually run
FairSpec == Spec /\ WF_vars(Program)

-----------------------------------------------------------------------------
(* Properties *)

\* C1: once wait_for_url_load has counted more than max_iter failed polls (and
\* printed its "Failed to reach" message) the run is over: no further poll is made
\* and no further UI action is issued.
C1_TimeoutAbortsRun ==
    (i > max_iter \/ out = MsgFailedToReach) => pc \in Terminal

\* C2: when the browser does not arrive at the main-accounts URL after the
\* credentials were submitted, the run eventually ends with the login-failure
\* message, and no transfer is attempted meanwhile.
C2_LoginMismatchAborts ==
    /\ (hist.creds /\ ~hist.arrived)
           ~> (hist.arrived \/ (pc = "exited" /\ out = MsgLoginFailed))
    /\ [](hist.creds /\ ~hist.arrived => hist.acted = <<>> /\ pc # "navigate")

\* the sheet as loaded lacks a required column (a column with no value at all is
\* dropped at loading)
LacksRequiredColumn ==
    /\ pc \notin {"sheet_name", "preprocess"}
    /\ \E name \in REQUIRED_COLUMNS : Col(name) \notin Range(settlements_df.columns)

\* C3: a sheet that lacks a required column ends construction in the schema-error
\* outcome (missing columns reported, process exits) and in no other failure.
C3_SchemaErrorReported ==
    LacksRequiredColumn => (pc = "exited" /\ out = MsgMissingColumns)

\* C10: a row-number entry that is no comma-separated list of integers never ends
\* the run: no run terminates on the ValueError of parse_row_input.
C10_FormatErrorReprompts ==
    ~(pc = "raised" /\ out = "ValueError")

-----------------------------------------------------------------------------
(* Selection and execution properties *)

\* the frame df holds one row per number of rows, in that order, with the cells the
\* filtered sheet has at label number - 2
RowsAsGiven(df, rows) ==
    /\ ~IsNone(df)
    /\ df.columns = settlements_df.columns
    /\ df.index = [k \in 1..Len(rows) |-> rows[k] - 2]
    /\ \A k \in 1..Len(rows) :
          /\ rows[k] - 2 \in Range(settlements_df.index)
          /\ df.data[k] = settlements_df.data[RowPos(settlements_df, rows[k] - 2)]

\* s without the later occurrences of its elements
Unique(s) ==
    Pick(s, Keep(Len(s), {k \in 1..Len(s) : \A j \in 1..(k - 1) : s[j] # s[k]}))

\* C4 as stated: a confirmed list of eligible row numbers is returned by
\* select_settlements_by_row as exactly those rows, in the order given, each row once.
C4_ReturnsDeduplicated ==
    /\ (pc = "constructed" /\ appends = 0 /\ ~IsNone(settlement_rows))
           => RowsAsGiven(settlement_rows, Unique(hist.rows))
    /\ pc = "add_rows" => RowsAsGiven(sub_df, Unique(hist.rows))

\* C4 as amended: a confirmed list of eligible row numbers is returned by
\* select_settlements_by_row as exactly those rows, in the order given, one row per
\* number given (a number given twice gives its row twice).
C4_ReturnsRowsAsGiven ==
    /\ (pc = "constructed" /\ appends = 0 /\ ~IsNone(settlement_rows))
           => RowsAsGiven(settlement_rows, hist.rows)
    /\ pc = "add_rows" => RowsAsGiven(sub_df, hist.rows)

C4_Witness ==
    /\ pc = "constructed"
    /\ appends = 0
    /\ hist.rows = <<3, 3>>
    /\ ~IsNone(settlement_rows)
    /\ settlement_rows.index = <<1, 1>>

\* every order of the pass, in the order the loops take them
Plan ==
    [n \in 1..(4 * Len(transfer_items)) |->
        [label |-> transfer_items[((n - 1) \div 4) + 1].label,
         order |-> initialize_transfer_dict(
                       transfer_items[((n - 1) \div 4) + 1])[((n - 1) % 4) + 1]]]

IsPrefix(a, b) == Len(a) <= Len(b) /\ a = SubSeq(b, 1, Len(a))

Legs ==
    << <<"Iolta", "Operating">>, <<"Operating", "Marketing">>,
       <<"Operating", "Cash Loan Repayment Fund">>, <<"Operating", "Building">> >>

\* C5: the orders are taken one at a time, rows in SelectionSet order and the four
\* legs of a row in the fixed order; an order is acted on only when every order
\* before it was seen on the confirmation page.
C5_OneAtATimeInOrder ==
    transfer_items # <<>> =>
        /\ [k \in 1..Len(transfer_items) |-> transfer_items[k].label]
               = settlement_rows.index
        /\ IsPrefix(hist.acted, Plan)
        /\ IsPrefix(hist.submitted, hist.acted)
        /\ IsPrefix(hist.reached, hist.submitted)
        /\ Len(hist.acted) <= Len(hist.reached) + 1
        /\ \A n \in 1..Len(Plan) :
              <<Plan[n].order.from_acct, Plan[n].order.to_acct>> = Legs[((n - 1) % 4) + 1]

C5_Witness ==
    /\ pc = "to_account"
    /\ item = 2
    /\ ord = 1
    /\ Len(hist.acted) = 5
    /\ Len(hist.reached) = 4

\* C6: every order planned, acted on or submitted belongs to a row the operator
\* confirmed into the SelectionSet.
C6_OrdersOnlyForConfirmedRows ==
    /\ \A k \in 1..Len(transfer_items) : transfer_items[k].label \in hist.approved
    /\ \A e \in Range(hist.acted) \cup Range(hist.submitted) : e.label \in hist.approved

C6_Witness ==
    /\ hist.shown \ hist.approved # {}
    /\ hist.submitted # <<>>

\* the cells of the sheet row an order was planned from
RowCells(label) == settlements_df.data[RowPos(settlements_df, label)]

\* C7: no row content has the same leg submitted twice in a run.
C7_NoContentSubmittedTwice ==
    \A p \in 1..Len(hist.submitted), q \in 1..Len(hist.submitted) :
        p # q =>
            ~(/\ RowCells(hist.submitted[p].label) = RowCells(hist.submitted[q].label)
              /\ hist.submitted[p].order.to_acct = hist.submitted[q].order.to_acct)

C7_Witness ==
    /\ pc = "returned"
    /\ Cardinality(hist.approved) = 2
    /\ Len(transfer_items) = 1
    /\ Len(hist.submitted) = 4

\* C8: the session is opened once; it is closed exactly when the run returned after
\* every order was seen on the confirmation page, and never on a run that exited
\* or raised.
C8_SessionClosedOnlyOnCompletion ==
    /\ hist.opened <= 1
    /\ browser # "none" <=> hist.opened = 1
    /\ browser = "closed" <=> hist.closed = 1
    /\ hist.closed <= 1
    /\ hist.closed = 1 <=> (pc = "returned" /\ hist.opened = 1)
    /\ hist.closed = 1 => hist.reached = Plan
    /\ pc \in {"exited", "raised"} => hist.closed = 0

C8_Witness ==
    /\ pc = "exited"
    /\ out = MsgLoginFailed
    /\ browser = "open"

\* C9: an entry that names a row absent from the filtered table builds no
\* candidate: it is reported as unavailable and the row prompt is shown again;
\* an entry of present rows made after that is taken like a first one.
C9_UnavailableReprompts ==
    [][pc = "row_input" /\ pc' # "raised" =>
          IF hist'.absent
          THEN /\ pc' = "row_input"
               /\ out' = MsgRowUnavailable
               /\ UNCHANGED <<sub_df, settlement_rows>>
               /\ hist'.shown = hist.shown
               /\ hist'.approved = hist.approved
          ELSE /\ pc' = "rows_correct"
               /\ RowsAsGiven(sub_df', hist'.rows)
               /\ out' = out]_vars

C9_Witness ==
    /\ pc = "rows_correct"
    /\ out = MsgRowUnavailable
    /\ hist.rows = <<3>>

-----------------------------------------------------------------------------
\* the account numbers and the amount column of the four legs, in list order
LegTemplates ==
    << [from_acct |-> "Iolta", to_acct |-> "Operating",
        from_acct_num |-> "IOLTA_ACCT_NUM", to_acct_num |-> "OPERATING_ACCT_NUM",
        column |-> "IOLTA to Business"],
       [from_acct |-> "Operating", to_acct |-> "Marketing",
        from_acct_num |-> "OPERATING_ACCT_NUM", to_acct_num |-> "MARKETING_ACCT_NUM",
        column |-> "MKT ACCT"],
       [from_acct |-> "Operating", to_acct |-> "Cash Loan Repayment Fund",
        from_acct_num |-> "OPERATING_ACCT_NUM", to_acct_num |-> "CASH_ACCT_NUM",
        column |-> "CASH'S LOAN"],
       [from_acct |-> "Operating", to_acct |-> "Building",
        from_acct_num |-> "OPERATING_ACCT_NUM", to_acct_num |-> "BUILDING_ACCT_NUM",
        column |-> "BUILDING BONUS"] >>

\* C11: every row planned for transfer gets exactly four orders, in the fixed leg
\* order; labels and account numbers are the fixed templates whatever the amounts
\* (zero included), each amount is the row's cell of the leg's column unchanged,
\* and each memo is the row's client name.
C11_FourOrdersFromTemplates ==
    \A k \in 1..Len(transfer_items) :
        LET orders == initialize_transfer_dict(transfer_items[k])
            r == RowPos(settlements_df, transfer_items[k].label)
        IN /\ Len(orders) = 4
           /\ \A n \in 1..4 :
                 /\ orders[n].from_acct = LegTemplates[n].from_acct
                 /\ orders[n].to_acct = LegTemplates[n].to_acct
                 /\ orders[n].from_acct_num = LegTemplates[n].from_acct_num
                 /\ orders[n].to_acct_num = LegTemplates[n].to_acct_num
                 /\ orders[n].amount = Cell(settlements_df, r, LegTemplates[n].column)
                 /\ orders[n].name = Cell(settlements_df, r, "NAME")

\* a row with zero amounts and a row with four different amounts are both planned
C11_Witness ==
    /\ Len(transfer_items) = 2
    /\ \E k \in 1..2 :
          initialize_transfer_dict(transfer_items[k])[3].amount = "0"
    /\ \E k \in 1..2 :
          /\ initialize_transfer_dict(transfer_items[k])[2].amount = "10"
          /\ initialize_transfer_dict(transfer_items[k])[3].amount = "5"

-----------------------------------------------------------------------------
\* the UI actions and page observations of one order, in the order of the loop body
OrderSteps ==
    <<"transfers_page", "from_account", "to_account", "amount", "memo", "next",
      "verify_page", "submit", "confirm_page", "another">>

\* how many of the steps of the current order are done when control is at a place
StepsDoneAt(at) ==
    CASE at = "verify_nav" -> {1}
      [] at = "from_account" -> {1}
      [] at = "to_account" -> {2}
      [] at = "amount" -> {3}
      [] at = "memo" -> {4}
      [] at = "click_next" -> {5}
      [] at = "wait_verify" -> {6}
      [] at = "submit" -> {7}
      [] at = "wait_confirm" -> {8}
      [] at = "another" -> {9}
      [] at = "wait_transfers" -> {0, 10}
      [] at = "returned" -> {0, 10}
      [] at \in {"raised", "exited"} -> 0..9
      [] OTHER -> {0}

\* C12: within one order the steps happen exactly in the order transfers page
\* observed, from-account, to-account, amount, memo, Next, verify page observed,
\* confirmation submitted, confirm page observed, return to the transfers page,
\* none skipped and none repeated; the login is performed once, before the first
\* order.
C12_StepsInOrder ==
    /\ IsPrefix(hist.steps, OrderSteps)
    /\ Len(hist.steps) \in StepsDoneAt(pc)
    /\ hist.logins <= 1
    /\ (hist.steps # <<>> \/ hist.acted # <<>>) => hist.logins = 1

\* the last order of a run went through all ten steps
C12_Witness ==
    /\ pc = "returned"
    /\ browser = "closed"
    /\ hist.steps = OrderSteps
    /\ Len(hist.reached) = 8

-----------------------------------------------------------------------------
\* the places where response_is_yes is awaiting a line
YesNoPcs == {"rows_correct", "reinput", "add_rows", "execute_confirm"}

\* a step taken while a yes/no prompt is awaiting a line
YesNoStep ==
    pc \in YesNoPcs =>
        /\ hist'.first \in {"y", "Y"} <=> hist'.answer = "yes"
        /\ hist'.first \in {"n", "N"} <=> hist'.answer = "no"
        /\ hist'.first \notin {"y", "Y", "n", "N"} <=> hist'.answer = "again"
        /\ hist'.answer = "again" <=> (pc' = pc /\ out' = MsgRespondYesNo)
        /\ hist'.answer = "again" =>
               UNCHANGED <<sub_df, settlement_rows, transfer_items>>

\* C13: at every yes/no prompt a line whose first non-blank character is y or Y
\* is taken as yes and one whose first non-blank character is n or N as no; on any
\* other line, the empty one included, nothing is returned: the hint is printed and
\* the same prompt is asked again.
C13_YesNoByFirstLetter == [][YesNoStep]_vars

\* a line of blanks only was typed at the execute prompt, which is asked again
C13_Witness ==
    /\ pc = "execute_confirm"
    /\ hist.first = ""
    /\ hist.answer = "again"
    /\ out = MsgRespondYesNo

-----------------------------------------------------------------------------
\* every row of the frame is the sheet record of its row number (label + 2), with
\* every required cell filled
RowsOfSheet(df) ==
    \A r \in 1..Len(df.index) :
        /\ ~BlankInSheet(hist.raw, df.index[r] + 2)
        /\ \A c \in 1..Len(df.columns) :
              df.data[r][c] = SheetCell(hist.raw, df.index[r] + 2, df.columns[c])
        /\ \A name \in REQUIRED_COLUMNS : Cell(df, r, name) # NaN

\* C14: no candidate or selected set holds a row with a blank required cell; an
\* entry naming the number of such a row gets the row-unavailable message and the
\* row prompt again; and a row number selects the record of that sheet row, whatever
\* rows were dropped as ineligible.
C14_BlankRowsNeverSelected ==
    /\ ~IsNone(sub_df) => RowsOfSheet(sub_df)
    /\ ~IsNone(settlement_rows) => RowsOfSheet(settlement_rows)
    /\ hist.blank => pc = "row_input" /\ out = MsgRowUnavailable

\* the row after a dropped one is selected by its own number, and the number of the
\* dropped row is then refused
C14_Witness ==
    /\ hist.raw = SheetBlankRow
    /\ ~IsNone(settlement_rows)
    /\ settlement_rows.index = <<1>>
    /\ hist.blank
    /\ pc = "row_input"
    /\ out = MsgRowUnavailable

-----------------------------------------------------------------------------
\* a step of append_more_settlement_rows
AppendStep ==
    caller = "append" /\ pc \in {"row_input", "rows_correct", "reinput", "add_rows"} =>
        /\ (pc = "add_rows" /\ hist'.answer = "yes") =>
               /\ pc' = "constructed"
               /\ settlement_rows'.columns = settlement_rows.columns
               /\ settlement_rows'.index = settlement_rows.index \o sub_df.index
               /\ settlement_rows'.data = settlement_rows.data \o sub_df.data
        /\ (pc = "add_rows" /\ hist'.answer = "no") =>
               /\ pc' = "constructed"
               /\ settlement_rows' = settlement_rows
        /\ (pc = "reinput" /\ hist'.answer = "no") =>
               /\ pc' = "constructed"
               /\ settlement_rows' = settlement_rows
        /\ pc # "add_rows" => settlement_rows' = settlement_rows

\* C15: append_more_settlement_rows changes the selected set only by appending:
\* when both prompts are confirmed the new set is the old one followed by the new
\* rows in order; when the add prompt is answered no, or the candidate rows are
\* rejected and re-entering is declined, the call completes without error and the
\* set is unchanged.
C15_AppendOnlyAppends == [][AppendStep]_vars

-----------------------------------------------------------------------------
\* the run returned from perform_transfers_via_selenium
CompletedRun == pc = "returned" /\ browser = "closed"

\* the run ended on an exception or an exit
FailedRun == pc \in {"raised", "exited"}

-----------------------------------------------------------------------------
\* C17: when the element lookup of execute_login, navigate_to_transfers,
\* select_from_account, submit_transfer or click_make_another_transfer fails, the
\* step either finds the element on a later try and goes on, or raises its
\* "Unable to load ... page. Please try again." error: it fails in no other way
\* and issues no action on an element it did not find.
C17_LookupFailureRetriesOrReports ==
    hist.lost # "" =>
        /\ pc = "raised" => out = ExcUnableToLoad(hist.lost)
        /\ hist.lost = "select_from_account" =>
               hist.acted = <<>> \/ hist.acted[Len(hist.acted)] # CurrentOrder
        /\ hist.lost = "submit_transfer" =>
               hist.submitted = <<>> \/ hist.submitted[Len(hist.submitted)] # CurrentOrder

-----------------------------------------------------------------------------
\* C18: between every two consecutive UI actions of a run (click, typed text, sent
\* key) a randomized delay is performed: no UI action is issued while the one
\* before it has had no delay after it.
C18_DelayBetweenUiActions == ~hist.rushed

-----------------------------------------------------------------------------
\* no automation session was opened, no credentials were asked for and no UI action
\* was issued
NoSession ==
    /\ browser = "none"
    /\ hist.opened = 0
    /\ ~hist.creds
    /\ hist.logins = 0
    /\ hist.acted = <<>>
    /\ hist.steps = <<>>
    /\ ~hist.hot

\* C19: when the operator aborts the row selection (rejects the candidate rows and
\* declines to re-enter) or answers no at the execute prompt, the program is on its
\* way out or ended, and no session was opened, no credentials were asked for and
\* no UI action was issued.
C19_NoSessionWithoutConfirmation ==
    /\ hist.answer = "no" => NoSession
    /\ (pc = "constructed" /\ IsNone(settlement_rows)) => NoSession
    /\ (pc = "exited" /\ out = MsgNoCasesSelected) =>
           NoSession /\ IsNone(settlement_rows) /\ hist.answer = "no"
    /\ (pc = "returned" /\ out = MsgNotExecuted) => NoSession /\ hist.answer = "no"

\* the execute prompt was answered no and the program returned
C19_Witness ==
    /\ pc = "returned"
    /\ out = MsgNotExecuted
    /\ hist.answer = "no"
    /\ browser = "none"

-----------------------------------------------------------------------------
\* an action was issued on the form of the order the loops are at
FormTouched ==
    /\ item > 0
    /\ hist.acted # <<>>
    /\ hist.acted[Len(hist.acted)] = CurrentOrder

\* the confirmation of the order the loops are at was submitted
FormSubmitted ==
    /\ item > 0
    /\ hist.submitted # <<>>
    /\ hist.submitted[Len(hist.submitted)] = CurrentOrder

\* C20: within one order submit_transfer is issued only after the location was seen
\* to be the verify URL following that order's Next click, and the form is touched
\* only after verify_navigation_to_transfers saw the transfers-main URL; when that
\* check sees another URL the run raises and no field of that order is touched.
C20_ActionsOnlyOnObservedPages ==
    /\ FormTouched => hist.seen_main = TRANSFERS_MAIN
    /\ FormSubmitted =>
           /\ hist.seen_verify = TRANSFERS_VERIFY
           /\ SubSeq(hist.steps, 1, 8) = SubSeq(OrderSteps, 1, 8)
    /\ hist.seen_main \notin {"", TRANSFERS_MAIN} =>
           /\ pc = "raised"
           /\ out = ExcNavigation
           /\ ~FormTouched
           /\ hist.steps = <<"transfers_page">>

\* the check of the second order saw another page after the wait had returned
C20_Witness ==
    /\ pc = "raised"
    /\ out = ExcNavigation
    /\ hist.seen_main = TRANSFERS_CONFIRM
    /\ Len(hist.submitted) = 1

=============================================================================
